---- MODULE Spec2Model ----
(***************************************************************************)
(* Model of the tus example server (src/main.go): the JWT wrapper around   *)
(* the tus handler, the pre-create callback, the completion consumer, and  *)
(* the resumable-upload engine the handler drives.  The engine itself      *)
(* (github.com/tus/tusd) is not part of the repository; its operations are *)
(* modelled from sections 3 to 7 of the specification.                     *)
(***************************************************************************)
EXTENDS Integers, Sequences, FiniteSets, TLC

\* ------------------------------------------------------------------ bounds

\* Upload ids that can be created (ids are never reused).
MaxUploads == 2

\* HTTP requests served in one behaviour of Spec.
MaxRequests == 3

\* HTTP requests served in one behaviour of FairSpec: two uploads created and
\* each brought to its declared length.
MaxRequestsFair == 4

\* Length of the character prefix put before a token in SpecJWT's headers.
MaxPrefixLen == 2

\* ------------------------------------------------------- program constants

\* http.StatusUnauthorized
StatusUnauthorized == 401

\* ----------------------------------------------------------------- strings
\* A Go string is modelled as a sequence of one-character strings.

Bearer == <<"B", "e", "a", "r", "e", "r", " ">>
TrueJWT == <<"T", "r", "u", "e", "J", "W", "T">>
FalseJWT == <<"F", "a", "l", "s", "e", "J", "W", "T">>
TestTxt == <<"t", "e", "s", "t", ".", "t", "x", "t">>

\* strings.TrimLeft(s, cutset): s without its leading characters that occur
\* anywhere in cutset (a character set, not a prefix).
RECURSIVE TrimLeft(_, _)
TrimLeft(s, cutset) ==
    IF s = <<>> THEN s
    ELSE IF \E i \in DOMAIN cutset : cutset[i] = Head(s)
         THEN TrimLeft(Tail(s), cutset)
         ELSE s

\* strings.TrimPrefix(s, prefix): what a literal prefix removal would do.
TrimPrefix(s, prefix) ==
    IF Len(s) >= Len(prefix) /\ SubSeq(s, 1, Len(prefix)) = prefix
    THEN SubSeq(s, Len(prefix) + 1, Len(s))
    ELSE s

checkJWT_PrefixOnly(authorizationHeader) ==
    LET jwt == TrimPrefix(authorizationHeader, Bearer)
    IN  IF jwt # TrueJWT THEN "Access denied" ELSE "nil"

\* checkJWT returns the error text, or "nil".
checkJWT(authorizationHeader) ==
    LET jwt == TrimLeft(authorizationHeader, Bearer)
    IN  IF jwt # TrueJWT THEN "Access denied" ELSE "nil"

\* textproto.CanonicalMIMEHeaderKey on the keys the program uses.
CanonicalHeaderKey(key) ==
    CASE key = "filename" -> "Filename"
      [] key = "authorization" -> "Authorization"
      [] OTHER -> key

\* http.Header.Get: the value stored under the canonical form of key, or "".
HeaderGet(h, key) ==
    LET k == CanonicalHeaderKey(key)
    IN  IF k \in DOMAIN h THEN h[k] ELSE <<>>


\* ------------------------------------------------------------ configuration

\* composer := tusd.NewStoreComposer(); store.UseIn(composer): the file store
\* is the only component registered; no locker is added to the composer.
UsesLocker == FALSE

\* tusd.Config{NotifyCompleteUploads: true}
NotifyCompleteUploads == TRUE

\* -------------------------------------------------------------------- state

Procs == {"r1", "r2"}
Ids == 1 .. MaxUploads

VARIABLES
    uploads,        \* ids that have a metadata record and a storage object
    info,           \* id -> [Size, SizeIsDeferred, Offset, MetaData]
    storage,        \* id -> number of bytes held by the storage backend
    terminated,     \* ids deleted by Terminate
    nextId,         \* the next id Create hands out
    published,      \* id -> completion events sent for the id so far
    sendq,          \* goroutines blocked sending on CompleteUploads, in order
    consumerPc,     \* the consumer goroutine: "recv" or "print"
    event,          \* the consumer's local variable event (its Upload.ID)
    received,       \* upload ids the consumer has received, in order
    printed,        \* lines written by fmt.Printf, in order
    pc,             \* request goroutine -> position
    req,            \* request goroutine -> the request it serves
    status,         \* request goroutine -> status line written (0: none yet)
    last,           \* the response sent last: request, outcome, status, new id
    issued,         \* requests accepted by the server so far
    header,         \* SpecJWT: the Authorization header under test
    jwtErr          \* SpecJWT: what checkJWT returned for it

engine == <<uploads, info, storage>>
vars == <<uploads, info, storage, terminated, nextId, published, sendq,
          consumerPc, event, received, printed, pc, req, status, last,
          issued, header, jwtErr>>

EmptyMetaData == [k \in {} |-> <<>>]
NoInfo == [Size |-> 0, SizeIsDeferred |-> FALSE, Offset |-> 0,
           MetaData |-> EmptyMetaData]

Max(a, b) == IF a >= b THEN a ELSE b

\* ----------------------------------------------------------------- requests

\* Authorization header: absent, or present with one of these values.
AuthValues == {Bearer \o TrueJWT, Bearer \o FalseJWT}
\* Filename header: absent, or present with this value.
FilenameValues == {TestTxt}

\* An http.Header holding the given values (a sequence of zero or one value
\* per key).
MkHeader(auth, fname) ==
    [k \in {x \in {"Authorization", "Filename"} :
               \/ x = "Authorization" /\ auth # <<>>
               \/ x = "Filename" /\ fname # <<>>}
        |-> IF k = "Authorization" THEN auth[1] ELSE fname[1]]

AuthHeaders == {MkHeader(a, <<>>) : a \in {<<>>} \cup {<<v>> : v \in AuthValues}}
AllHeaders ==
    {MkHeader(a, f) : a \in {<<>>} \cup {<<v>> : v \in AuthValues},
                      f \in {<<>>} \cup {<<v>> : v \in FilenameValues}}
\* Headers of the requests that act on an existing upload: a header with a
\* wrong token is sent with Create and Head only, to keep the request set small.
WriteHeaders == {MkHeader(a, <<>>) : a \in {<<>>, <<Bearer \o TrueJWT>>}}

DeclaredLengths == {0, 24}
PayloadLengths == {0, 10, 24}
ExpectedOffsets == {0, 5, 10}
\* Bytes a failing storage write may have written before it failed.
PartialCounts == {5}

NoReq == [op |-> "none", id |-> 0, size |-> 0, deferred |-> FALSE,
          expected |-> 0, len |-> 0, header |-> MkHeader(<<>>, <<>>)]
NoResponse == [req |-> NoReq, result |-> "none", status |-> 0, created |-> 0]

CreateRequests ==
    {[op |-> "Create", id |-> 0, size |-> s, deferred |-> FALSE,
      expected |-> 0, len |-> 0, header |-> h] :
        s \in DeclaredLengths \cup {-1}, h \in AllHeaders}
    \cup
    {[op |-> "Create", id |-> 0, size |-> 0, deferred |-> TRUE,
      expected |-> 0, len |-> 0, header |-> h] : h \in AllHeaders}

AppendRequests ==
    {[op |-> "Append", id |-> i, size |-> 0, deferred |-> FALSE,
      expected |-> e, len |-> n, header |-> h] :
        i \in Ids, e \in ExpectedOffsets, n \in PayloadLengths, h \in WriteHeaders}

HeadRequests ==
    {[op |-> "Head", id |-> i, size |-> 0, deferred |-> FALSE,
      expected |-> 0, len |-> 0, header |-> h] : i \in Ids, h \in AuthHeaders}

SetDeferredLengthRequests ==
    {[op |-> "SetDeferredLength", id |-> i, size |-> s, deferred |-> FALSE,
      expected |-> 0, len |-> 0, header |-> h] :
        i \in Ids, s \in DeclaredLengths, h \in WriteHeaders}

TerminateRequests ==
    {[op |-> "Terminate", id |-> i, size |-> 0, deferred |-> FALSE,
      expected |-> 0, len |-> 0, header |-> h] : i \in Ids, h \in WriteHeaders}

\* ------------------------------------------------------------- the wrapper

\* http.ResponseWriter.WriteHeader: the first status written is the one sent;
\* a later call is superfluous and ignored.
WriteHeader_LastWins(written, code) == code

WriteHeader(written, code) == IF written = 0 THEN code ELSE written

\* err := checkJWT(req.Header.Get("Authorization"))
Rejected(r) == checkJWT(HeaderGet(r.header, "Authorization")) # "nil"

\* if err != nil { w.WriteHeader(http.StatusUnauthorized) }: the status line
\* after the wrapper's check and before customHandler.ServeHTTP runs.
WrapperStatus(r) ==
    IF Rejected(r) THEN WriteHeader(0, StatusUnauthorized) ELSE 0

\* Status the tus handler writes for an outcome.
StatusOf(res) ==
    CASE res = "created" -> 201
      [] res = "ok" -> 204
      [] res = "NotFound" -> 404
      [] res = "OffsetMismatch" -> 409
      [] res = "LengthExceeded" -> 413
      [] res = "InvalidLength" -> 400
      [] res = "AlreadySet" -> 400
      [] OTHER -> 500

\* The handler is over for request r of goroutine p, with outcome res: it
\* writes its status on the response, whose status line so far is written,
\* and the goroutine is free for the next request.
Finish(p, r, written, res, newId) ==
    /\ last' = [req |-> r, result |-> res,
                status |-> WriteHeader(written, StatusOf(res)),
                created |-> newId]
    /\ pc' = [pc EXCEPT ![p] = "idle"]
    /\ req' = [req EXCEPT ![p] = NoReq]
    /\ status' = [status EXCEPT ![p] = 0]

\* The handler goes on with request r in goroutine p at position at.
Continue(p, r, written, at) ==
    /\ pc' = [pc EXCEPT ![p] = at]
    /\ req' = [req EXCEPT ![p] = r]
    /\ status' = [status EXCEPT ![p] = written]
    /\ UNCHANGED last

\* ------------------------------------------------------------------- engine

\* PreUploadCreateCallback: hook.Upload.MetaData["filename"] =
\* hook.HTTPRequest.Header.Get("filename"); return nil.  The requests carry no
\* Upload-Metadata header, so the map the hook receives is empty.
PreUploadCreateCallback(metaData, h) ==
    [err |-> "nil",
     MetaData |-> [k \in DOMAIN metaData \cup {"filename"} |->
                      IF k = "filename" THEN HeaderGet(h, "filename")
                      ELSE metaData[k]]]

\* Append's guard on the client's offset.
OffsetMatches_AtMost(expectedOffset, currentOffset) ==
    expectedOffset <= currentOffset

OffsetMatches(expectedOffset, currentOffset) == expectedOffset = currentOffset

\* Metadata Store get(id): NotFound once the record is gone.
Exists(id) == id \in uploads

\* Goroutines between the offset check of an Append and its last step.
InFlight(p) == pc[p] \in {"write", "writing", "advance", "notify"}

\* The per-upload lock of the Transfer Session Coordinator: taken by an Append
\* only when the composer has a locker.
LockFree(p, id) ==
    UsesLocker => ~\E q \in Procs \ {p} : InFlight(q) /\ req[q].id = id

\* Create: a new id with offset 0 and an empty storage object.
EngineCreate(p, r, written) ==
    LET hook == PreUploadCreateCallback(EmptyMetaData, r.header)
    IN  IF (~r.deferred /\ r.size < 0) \/ hook.err # "nil"
        THEN /\ Finish(p, r, written,
                       IF hook.err # "nil" THEN "Rejected" ELSE "InvalidLength", 0)
             /\ UNCHANGED <<uploads, info, storage, nextId>>
        ELSE /\ nextId <= MaxUploads
             /\ uploads' = uploads \cup {nextId}
             /\ info' = [info EXCEPT ![nextId] =
                            [Size |-> r.size, SizeIsDeferred |-> r.deferred,
                             Offset |-> 0, MetaData |-> hook.MetaData]]
             /\ storage' = [storage EXCEPT ![nextId] = 0]
             /\ nextId' = nextId + 1
             /\ Finish(p, r, written, "created", nextId)

\* Append, first step: look the upload up and validate the request against
\* its metadata; nothing is mutated.
EngineAppendValidate(p, r, written) ==
    /\ LockFree(p, r.id)
    /\ IF ~Exists(r.id) THEN Finish(p, r, written, "NotFound", 0)
       ELSE IF ~OffsetMatches(r.expected, info[r.id].Offset)
            THEN Finish(p, r, written, "OffsetMismatch", 0)
       ELSE IF ~info[r.id].SizeIsDeferred /\ r.expected + r.len > info[r.id].Size
            THEN Finish(p, r, written, "LengthExceeded", 0)
       ELSE Continue(p, r, written, "write")
    /\ UNCHANGED <<uploads, info, storage, nextId>>

\* Head: the current offset and length; no state change.
EngineHead(p, r, written) ==
    /\ Finish(p, r, written, IF Exists(r.id) THEN "ok" ELSE "NotFound", 0)
    /\ UNCHANGED <<uploads, info, storage, nextId>>

\* SetDeferredLength: once, and only while the length is deferred.
EngineSetDeferredLength(p, r, written) ==
    /\ IF ~Exists(r.id)
       THEN Finish(p, r, written, "NotFound", 0) /\ UNCHANGED info
       ELSE IF ~info[r.id].SizeIsDeferred
            THEN Finish(p, r, written, "AlreadySet", 0) /\ UNCHANGED info
       ELSE /\ info' = [info EXCEPT ![r.id].Size = r.size,
                                    ![r.id].SizeIsDeferred = FALSE]
            /\ Finish(p, r, written, "ok", 0)
    /\ UNCHANGED <<uploads, storage, nextId>>

\* What Terminate leaves of the set of uploads.
Remaining_KeepRecord(id) == uploads

Remaining(id) == uploads \ {id}

\* Terminate: deletes the metadata record and the storage object.
EngineTerminate(p, r, written) ==
    /\ IF ~Exists(r.id)
       THEN /\ Finish(p, r, written, "NotFound", 0)
            /\ UNCHANGED <<uploads, info, storage, terminated>>
       ELSE /\ uploads' = Remaining(r.id)
            /\ info' = [info EXCEPT ![r.id] = NoInfo]
            /\ storage' = [storage EXCEPT ![r.id] = 0]
            /\ terminated' = terminated \cup {r.id}
            /\ Finish(p, r, written, "ok", 0)
    /\ UNCHANGED nextId

\* ------------------------------------------------------------------ actions

\* The handler registered for /files/: checkJWT, WriteHeader(401) when it
\* fails, then customHandler.ServeHTTP in either case.
Serve(p, r, max) ==
    /\ pc[p] = "idle"
    /\ issued < max
    /\ issued' = issued + 1
    /\ CASE r.op = "Create" ->
                EngineCreate(p, r, WrapperStatus(r)) /\ UNCHANGED terminated
         [] r.op = "Append" ->
                EngineAppendValidate(p, r, WrapperStatus(r)) /\ UNCHANGED terminated
         [] r.op = "Head" ->
                EngineHead(p, r, WrapperStatus(r)) /\ UNCHANGED terminated
         [] r.op = "SetDeferredLength" ->
                EngineSetDeferredLength(p, r, WrapperStatus(r)) /\ UNCHANGED terminated
         [] r.op = "Terminate" -> EngineTerminate(p, r, WrapperStatus(r))
    /\ UNCHANGED <<published, sendq, consumerPc, event, received, printed,
                   header, jwtErr>>

ServeCreate(p, max) == \E r \in CreateRequests : Serve(p, r, max)
ServeAppend(p, max) == \E r \in AppendRequests : Serve(p, r, max)
ServeHead(p, max) == \E r \in HeadRequests : Serve(p, r, max)
ServeSetDeferredLength(p, max) ==
    \E r \in SetDeferredLengthRequests : Serve(p, r, max)
ServeTerminate(p, max) == \E r \in TerminateRequests : Serve(p, r, max)

\* Append, storage write, begin: writeAt fails with OffsetMismatch unless the
\* offset is the current stored length.
WriteBegin(p) ==
    /\ pc[p] = "write"
    /\ IF ~Exists(req[p].id) THEN Finish(p, req[p], status[p], "NotFound", 0)
       ELSE IF storage[req[p].id] # req[p].expected
            THEN Finish(p, req[p], status[p], "OffsetMismatch", 0)
       ELSE Continue(p, req[p], status[p], "writing")
    /\ UNCHANGED <<uploads, info, storage, terminated, nextId, published, sendq,
                   consumerPc, event, received, printed, issued, header, jwtErr>>

\* Append, storage write, end: the bytes are in the object at the offset
\* (writes are not atomic across overlapping ranges), or the write fails
\* after part of them and the offset is not advanced.
WriteEnd(p) ==
    /\ pc[p] = "writing"
    /\ IF ~Exists(req[p].id)
       THEN Finish(p, req[p], status[p], "NotFound", 0) /\ UNCHANGED storage
       ELSE \/ /\ storage' = [storage EXCEPT ![req[p].id] =
                                 Max(@, req[p].expected + req[p].len)]
               /\ Continue(p, req[p], status[p], "advance")
            \/ \E k \in PartialCounts :
                 /\ k < req[p].len
                 /\ storage' = [storage EXCEPT ![req[p].id] =
                                   Max(@, req[p].expected + k)]
                 /\ Finish(p, req[p], status[p], "StorageUnavailable", 0)
    /\ UNCHANGED <<uploads, info, terminated, nextId, published, sendq,
                   consumerPc, event, received, printed, issued, header, jwtErr>>

\* Append, last step: advanceOffset(id, newOffset), and the completion event
\* when the resulting offset equals the declared length.  The send on
\* CompleteUploads blocks the goroutine until the consumer receives.
Advance(p) ==
    LET id == req[p].id
        newOffset == req[p].expected + req[p].len
    IN  /\ pc[p] = "advance"
        /\ IF ~Exists(id)
           THEN /\ Finish(p, req[p], status[p], "NotFound", 0)
                /\ UNCHANGED <<info, published, sendq>>
           ELSE IF newOffset < info[id].Offset
                THEN /\ Finish(p, req[p], status[p], "InvalidOffset", 0)
                     /\ UNCHANGED <<info, published, sendq>>
           ELSE /\ info' = [info EXCEPT ![id].Offset = newOffset]
                /\ IF NotifyCompleteUploads /\ ~info[id].SizeIsDeferred
                      /\ newOffset = info[id].Size
                   THEN /\ published' = [published EXCEPT ![id] = @ + 1]
                        /\ sendq' = Append(sendq, p)
                        /\ Continue(p, req[p], status[p], "notify")
                   ELSE /\ Finish(p, req[p], status[p], "ok", 0)
                        /\ UNCHANGED <<published, sendq>>
        /\ UNCHANGED <<uploads, storage, terminated, nextId, consumerPc, event,
                       received, printed, issued, header, jwtErr>>

\* fmt.Printf("Upload %s finished\n", event.Upload.ID)
Line(id) == <<"Upload ", id, " finished\n">>

\* event := <-handler.CompleteUploads: takes the event of the sender that has
\* waited longest and lets that sender go on to its response.
Receive ==
    /\ consumerPc = "recv"
    /\ sendq # <<>>
    /\ LET p == Head(sendq)
       IN  /\ event' = req[p].id
           /\ received' = Append(received, req[p].id)
           /\ Finish(p, req[p], status[p], "ok", 0)
    /\ sendq' = Tail(sendq)
    /\ consumerPc' = "print"
    /\ UNCHANGED <<uploads, info, storage, terminated, nextId, published,
                   printed, issued, header, jwtErr>>

\* The consumer after the loop body: back to the receive.
AfterPrint_Exit == "exit"

AfterPrint == "recv"

\* fmt.Printf, then the next iteration of for { }.
PrintLine ==
    /\ consumerPc = "print"
    /\ printed' = Append(printed, Line(event))
    /\ consumerPc' = AfterPrint
    /\ UNCHANGED <<uploads, info, storage, terminated, nextId, published, sendq,
                   event, received, pc, req, status, last, issued, header, jwtErr>>

\* ----------------------------------------------------------- specifications

ServerInit ==
    /\ uploads = {}
    /\ info = [i \in Ids |-> NoInfo]
    /\ storage = [i \in Ids |-> 0]
    /\ terminated = {}
    /\ nextId = 1
    /\ published = [i \in Ids |-> 0]
    /\ sendq = <<>>
    /\ consumerPc = "recv"
    /\ event = 0
    /\ received = <<>>
    /\ printed = <<>>
    /\ pc = [p \in Procs |-> "idle"]
    /\ req = [p \in Procs |-> NoReq]
    /\ status = [p \in Procs |-> 0]
    /\ last = NoResponse
    /\ issued = 0

Init ==
    /\ ServerInit
    /\ header = <<>>
    /\ jwtErr = "unchecked"

\* One step of the server that accepts at most max requests.
Step(max) ==
    \/ \E p \in Procs : ServeCreate(p, max)
    \/ \E p \in Procs : ServeAppend(p, max)
    \/ \E p \in Procs : ServeHead(p, max)
    \/ \E p \in Procs : ServeSetDeferredLength(p, max)
    \/ \E p \in Procs : ServeTerminate(p, max)
    \/ \E p \in Procs : WriteBegin(p)
    \/ \E p \in Procs : WriteEnd(p)
    \/ \E p \in Procs : Advance(p)
    \/ Receive
    \/ PrintLine

Next == Step(MaxRequests)

Spec == Init /\ [][Next]_vars

NextFair == Step(MaxRequestsFair)

\* The Go scheduler runs a runnable goroutine eventually: the consumer is not
\* starved at its receive or at its print.
FairSpec == Init /\ [][NextFair]_vars /\ WF_vars(Receive) /\ WF_vars(PrintLine)

\* ----------------------------------------------------- checkJWT on its own

\* Characters put before a token: the five of the cutset and two outside it.
PrefixAlphabet == {"B", "e", "a", "r", " ", "T", "x"}
Prefixes == UNION {[1 .. k -> PrefixAlphabet] : k \in 0 .. MaxPrefixLen}
Tokens == {TrueJWT, FalseJWT, <<>>, Tail(TrueJWT), TrueJWT \o <<"x">>}
AarBTrueJWT == <<"a", "a", "r", "B", " ">> \o TrueJWT
HeaderInputs ==
    {pre \o tok : pre \in Prefixes, tok \in Tokens}
    \cup {Bearer \o TrueJWT, Bearer \o FalseJWT, AarBTrueJWT}

InitJWT ==
    /\ ServerInit
    /\ header \in HeaderInputs
    /\ jwtErr = "unchecked"

\* A request arrives with another Authorization header.
NewHeader ==
    /\ jwtErr # "unchecked"
    /\ \E h \in HeaderInputs : header' = h
    /\ jwtErr' = "unchecked"
    /\ UNCHANGED <<uploads, info, storage, terminated, nextId, published, sendq,
                   consumerPc, event, received, printed, pc, req, status, last,
                   issued>>

\* err := checkJWT(header)
CallCheckJWT ==
    /\ jwtErr = "unchecked"
    /\ jwtErr' = checkJWT(header)
    /\ UNCHANGED <<uploads, info, storage, terminated, nextId, published, sendq,
                   consumerPc, event, received, printed, pc, req, status, last,
                   issued, header>>

NextJWT == NewHeader \/ CallCheckJWT

SpecJWT == InitJWT /\ [][NextJWT]_vars

\* ------------------------------------------------------------------- claims

\* The request a Serve step (issued' # issued) takes up: the one that went in
\* flight, or the one just answered.
ServedNow ==
    IF \E p \in Procs : pc[p] = "idle" /\ pc'[p] # "idle"
    THEN req'[CHOOSE p \in Procs : pc[p] = "idle" /\ pc'[p] # "idle"]
    ELSE last'.req

\* C1: when checkJWT rejects a request's Authorization header, no step taken
\* for that request (its arrival, or a later step of its Append) changes the
\* set of uploads, their metadata or their stored bytes.
C1_RejectedRequestChangesNothing ==
    [][/\ (issued' # issued /\ Rejected(ServedNow)) => engine' = engine
       /\ \A p \in Procs :
            (InFlight(p) /\ pc'[p] # pc[p] /\ Rejected(req[p])) => engine' = engine
      ]_vars

\* C2: in every reachable state the storage backend holds, for every upload,
\* exactly as many bytes as the offset in the upload's metadata.
C2_NoDrift == \A id \in uploads : storage[id] = info[id].Offset

\* C3: an Append whose expectedOffset differs from the upload's current offset
\* is answered OffsetMismatch at once and changes neither any offset nor any
\* stored length.
C3_OffsetMismatchRejected ==
    [][(/\ issued' # issued
        /\ ServedNow.op = "Append"
        /\ ServedNow.id \in uploads
        /\ ServedNow.expected # info[ServedNow.id].Offset)
       => /\ last'.req = ServedNow
          /\ last'.result = "OffsetMismatch"
          /\ pc' = pc
          /\ info' = info
          /\ storage' = storage
          /\ uploads' = uploads]_vars

\* C3's scenario: length 24, 10 bytes accepted at offset 0, then 10 bytes at
\* offset 5 answered OffsetMismatch with the offset still 10.
C3_Scenario ==
    /\ last.req.op = "Append"
    /\ last.result = "OffsetMismatch"
    /\ last.req.expected = 5
    /\ last.req.len = 10
    /\ last.req.id \in uploads
    /\ info[last.req.id].Size = 24
    /\ info[last.req.id].Offset = 10
    /\ storage[last.req.id] = 10

\* C4: at most one Append per upload id is in flight at any time.
C4_OneAppendInFlightPerId ==
    \A p \in Procs : \A q \in Procs \ {p} :
        (InFlight(p) /\ InFlight(q)) => req[p].id # req[q].id

\* C5: no upload has more than one completion notification published, and an
\* upload that has one has its offset at its declared length.
C5_PublishedOnce ==
    \A id \in Ids :
        /\ published[id] <= 1
        /\ (published[id] = 1 /\ id \in uploads) =>
              (~info[id].SizeIsDeferred /\ info[id].Offset = info[id].Size)

C8_FilenameKey ==
    (/\ last.result = "created"
     /\ "Filename" \in DOMAIN last.req.header
     /\ last.created \in uploads)
    => /\ "Filename" \in DOMAIN info[last.created].MetaData
       /\ info[last.created].MetaData["Filename"] = last.req.header["Filename"]

\* The headers C9 describes: "TrueJWT" after any number of characters of the
\* set {B, e, a, r, space}.
AcceptedForm(h) ==
    \E k \in 0 .. Len(h) :
        /\ SubSeq(h, k + 1, Len(h)) = TrueJWT
        /\ \A i \in 1 .. k : h[i] \in {"B", "e", "a", "r", " "}

RECURSIVE SumPublished(_)
SumPublished(n) == IF n = 0 THEN 0 ELSE published[n] + SumPublished(n - 1)

\* C10: the consumer is always at its receive or at its print; every event
\* sent on CompleteUploads is eventually received; the lines printed are, in
\* order, one line per event received, each with that event's upload id; and
\* each event received was sent.
C10_Consumer ==
    /\ [](consumerPc \in {"recv", "print"})
    /\ [](/\ Len(received) = Len(printed) + (IF consumerPc = "print" THEN 1 ELSE 0)
          /\ \A i \in 1 .. Len(printed) : printed[i] = Line(received[i])
          /\ consumerPc = "print" => event = received[Len(received)]
          /\ Len(received) + Len(sendq) = SumPublished(MaxUploads))
    /\ \A p \in Procs : (pc[p] = "notify") ~> (pc[p] # "notify")
    /\ (consumerPc = "print") ~> (consumerPc = "recv")

\* C10's case: the events of two uploads were received, the later upload's
\* first, and their two lines printed in that order.
C10_TwoLines ==
    /\ consumerPc = "recv"
    /\ received = <<2, 1>>
    /\ printed = <<Line(2), Line(1)>>

====
